---- MODULE Spec2Model ----
(***************************************************************************)
(* Session lifecycle of StreamComponent (StreamComponent.tsx): the create, *)
(* poll, reconnect and close sequences of the GameLift Streams React       *)
(* starter, as interleaved asynchronous continuations over one component.  *)
(*                                                                         *)
(* Every await of the source is a step boundary; the code between two      *)
(* awaits runs as one action.  Gateway responses, Transport Engine         *)
(* outcomes and the passage of time are chosen by the environment.         *)
(* Time is counted in poll intervals (one tick = the 1000 ms sleep of      *)
(* waitForACTIVE); each poll loop carries Date.now() - startTime, which    *)
(* is all the loop ever reads of the clock.                                *)
(***************************************************************************)
EXTENDS Integers, Sequences, FiniteSets, TLC

\* ---------------------------------------------------------------- bounds
MaxSeq == 2          \* create / reconnect invocations per run
TimeoutTicks == 2    \* timeoutMs of waitForACTIVE, in poll intervals
MaxSegs == 4         \* '/'-delimited segments of a session ARN
MaxTimers == 3       \* interval ids setInterval can hand out
MaxClock == 2        \* sampling periods that pass

\* ------------------------------------------------------- program constants
SleepTicks == 1      \* setTimeout(resolve, 1000): one poll interval

\* StreamState enum
STOPPED == "STOPPED"
LOADING == "LOADING"
RUNNING == "RUNNING"
ERROR == "ERROR"
StreamState == {STOPPED, LOADING, RUNNING, ERROR}

\* status field of a GetSession body (control-plane vocabulary)
SessionStatus == {"ACTIVATING", "ACTIVE", "ERROR", "TERMINATED"}

\* What a rejected Gateway await can throw, as handleError tells them apart:
\*   ApiResp     ApiError with a response whose body parses as JSON
\*   ApiBadBody  ApiError with a response whose body is absent or not JSON
\*   ApiNoResp   ApiError without a response
\*   Other       any other thrown value (token fetch, body parse, TypeError)
ErrKind == {"ApiResp", "ApiBadBody", "ApiNoResp", "Other"}

SeqIds == 1..MaxSeq
\* one handle at mount and one per close; a close needs a sequence that
\* reached RUNNING before it
HandleIds == 1..(MaxSeq + 1)

\* ---------------------------------------------------------------- strings
\* A string is a sequence of one-character strings; '' is <<>>.
\* undefined (a missing field, an unset environment variable)
Undefined == <<"undefined">>
Unset == Undefined

\* String.prototype.trim
RECURSIVE TrimLeft(_)
TrimLeft(str) ==
    IF str # <<>> /\ Head(str) = " " THEN TrimLeft(Tail(str)) ELSE str

RECURSIVE TrimRight(_)
TrimRight(str) ==
    IF str # <<>> /\ str[Len(str)] = " "
    THEN TrimRight(SubSeq(str, 1, Len(str) - 1)) ELSE str

Trim(str) == TrimRight(TrimLeft(str))

\* String.prototype.split("/"): the pieces between the separators, in
\* order, empty pieces included
RECURSIVE SplitFrom(_, _, _)
SplitFrom(str, cur, acc) ==
    IF str = <<>> THEN Append(acc, cur)
    ELSE IF Head(str) = "/" THEN SplitFrom(Tail(str), <<>>, Append(acc, cur))
    ELSE SplitFrom(Tail(str), Append(cur, Head(str)), acc)

Split(str) == SplitFrom(str, <<>>, <<>>)

VARIABLES
    mounted,          \* componentDidMount has run
    status,           \* state.status
    isStreamStarting, \* state.isStreamStarting
    inputEnabled,     \* state.inputEnabled
    lastSessionId,    \* state.lastSessionId (0 is '')
    gameliftstreams,  \* this.gameliftstreams: current handle id, 0 = undefined
    constructed,      \* handles built by new GameLiftStreams(...)
    closed,           \* handles on which close() has been called
    answered,         \* handles whose processSignalResponse resolved
    attached,         \* handles on which attachInput() was called
    opsOnClosed,      \* <<handle, op>> started on a handle already closed
    sgId,             \* state.sgId (strings are sequences of characters)
    appId,            \* state.appId
    sessionId,        \* state.sessionId
    regions,          \* state.regions
    nseq,             \* number of create / reconnect invocations so far
    overlapped,       \* some invocation began while another was in flight
    seqs,             \* the invocations: one record per async call chain
    env,              \* process.env.CONNECTION_TIMEOUT of the start Lambda
    gw,               \* the Lambda invocation being served
    ov,               \* StatsOverlay: its props, hook state and refs
    closure,          \* what the functions of the committed render close over
    effects,          \* passive effects of the committed render not yet run
    timers,           \* intervals armed by setInterval and not cleared
    fetching,         \* the getVideoRTCStats call a tick is awaiting
    clock,            \* Date.now(), in sampling periods
    hist,             \* what has been observed of the overlay so far
    bars              \* the last createStatBar call and what it rendered

vars == <<mounted, status, isStreamStarting, inputEnabled, lastSessionId,
          gameliftstreams, constructed, closed, answered, attached,
          opsOnClosed, sgId, appId, sessionId, regions, nseq, overlapped,
          seqs, env, gw, ov, closure, effects, timers, fetching, clock, hist,
          bars>>

compVars == <<status, isStreamStarting, inputEnabled, lastSessionId>>
handleVars == <<gameliftstreams, constructed, closed, answered, attached, opsOnClosed>>
formVars == <<sgId, appId, sessionId, regions>>
gwVars == <<env, gw>>
overlayVars == <<ov, closure, effects, timers, fetching, clock, hist>>
statsVars == <<overlayVars, bars>>

\* ------------------------------------------------------------- sequences
\* no request body built yet
NoPayload == [built |-> FALSE]

\* body of POST / as createStreamSession builds it from the state
StartPayload(signalRequest) ==
    [AppIdentifier |-> appId, SGIdentifier |-> sgId,
     SignalRequest |-> signalRequest, Regions |-> regions]

\* body of POST /reconnect as createStreamSessionConnection builds it
ReconnectPayload(signalRequest) ==
    [SessionIdentifier |-> sessionId, SignalRequest |-> signalRequest]

NoSeq ==
    [kind |-> "none", pc |-> "idle", outcome |-> "none", err |-> "none",
     offerHandle |-> 0, arn |-> 0, elapsed |-> 0, slept |-> 0,
     calls |-> 0, nonActive |-> 0,
     sig |-> <<>>, applyHandle |-> 0, attachHandle |-> 0,
     alerted |-> FALSE, escaped |-> FALSE,
     payload |-> NoPayload, sg |-> <<>>, lastStatus |-> "none"]

InFlight(s) == seqs[s].pc \notin {"idle", "done"}

\* signalResponse carried by each Gateway response
StartSig(s) == <<"start", s>>
GetSig(s, k) == <<"get", s, k>>
ConnSig(s) == <<"connect", s>>

\* arn returned by StartSession for invocation s
ArnOf(s) == s

\* ------------------------------------------------------ Transport Engine
\* an operation op is started on this.gameliftstreams
UseHandle(op) ==
    IF gameliftstreams \in closed
    THEN opsOnClosed \cup {<<gameliftstreams, op>>}
    ELSE opsOnClosed

\* new gameliftstreamssdk.GameLiftStreams({...})
resetGameLiftStreamsSDK(built) == Cardinality(built) + 1

componentDidMount ==
    /\ UNCHANGED <<formVars, gwVars, statsVars>>
    /\ ~mounted
    /\ mounted' = TRUE
    /\ gameliftstreams' = resetGameLiftStreamsSDK(constructed)
    /\ constructed' = constructed \cup {gameliftstreams'}
    /\ UNCHANGED <<compVars, closed, answered, attached, opsOnClosed, nseq, overlapped, seqs>>

\* ----------------------------------------------------------- handleError
\* what handleError(e) does: clears isStreamStarting, shows an alert, or
\* throws out of the catch block (JSON.parse of the body)
handleError(e) ==
    CASE e = "ApiResp"    -> [clear |-> TRUE,  alert |-> TRUE,  throws |-> FALSE]
      [] e = "ApiBadBody" -> [clear |-> FALSE, alert |-> FALSE, throws |-> TRUE]
      [] e = "ApiNoResp"  -> [clear |-> FALSE, alert |-> FALSE, throws |-> FALSE]
      [] OTHER            -> [clear |-> TRUE,  alert |-> TRUE,  throws |-> FALSE]

\* handleTimeout(arn): logs and alerts, sets no state
handleTimeout == [clear |-> FALSE, alert |-> TRUE, throws |-> FALSE]

\* the async function returns or throws: its timers are gone
Finish(r, out, e) ==
    [r EXCEPT !.pc = "done", !.outcome = out, !.err = e,
              !.elapsed = 0, !.slept = 0, !.lastStatus = "none"]

SetSeq(s, r) == [seqs EXCEPT ![s] = r]

\* ------------------------------------------------------------ poll loop
\* variant: the answer kept from the StartSession body is the one applied
PolledSignal_fromStart(s) == StartSig(s)

\* data.signalResponse of the GetSession body that reported ACTIVE
PolledSignal(s) == GetSig(s, seqs[s].calls)

\* variant: the loop has no deadline (its counters stop at the values a
\* loop with a deadline can reach)
waitForACTIVE_noDeadline(s, r) ==
    /\ seqs' = SetSeq(s, [r EXCEPT !.pc = "get",
                                   !.calls = IF @ < TimeoutTicks + 1
                                             THEN @ + 1 ELSE @,
                                   !.nonActive = IF @ < TimeoutTicks
                                                 THEN @ ELSE TimeoutTicks,
                                   !.lastStatus = "none"])
    /\ UNCHANGED isStreamStarting

\* top of the while loop of waitForACTIVE: either the next GetSession is
\* issued, or the loop is left and the timeout is handled
waitForACTIVE(s, r) ==
    IF r.elapsed < TimeoutTicks
    THEN /\ seqs' = SetSeq(s, [r EXCEPT !.pc = "get", !.calls = @ + 1,
                                         !.lastStatus = "none"])
         /\ UNCHANGED isStreamStarting
    ELSE /\ seqs' = SetSeq(s, [Finish(r, "timeout", "none") EXCEPT
                                  !.alerted = handleTimeout.alert])
         /\ isStreamStarting' = FALSE

\* variant: attachInput is called without awaiting processSignalResponse
startStream_attachFirst(s, r, signalResponse) ==
    /\ seqs' = SetSeq(s, [r EXCEPT !.pc = "apply", !.sig = signalResponse,
                                   !.applyHandle = gameliftstreams,
                                   !.attachHandle = gameliftstreams])
    /\ opsOnClosed' = UseHandle("processSignalResponse")

\* startStream up to its await: processSignalResponse is called on the
\* current handle
startStream(s, r, signalResponse) ==
    /\ seqs' = SetSeq(s, [r EXCEPT !.pc = "apply", !.sig = signalResponse,
                                   !.applyHandle = gameliftstreams])
    /\ opsOnClosed' = UseHandle("processSignalResponse")

\* variant: the catch block of the loop lacks its return, so the loop goes on
waitForACTIVE_catch_noReturn(s, e) ==
    waitForACTIVE(s, [seqs[s] EXCEPT !.err = e, !.alerted = handleError(e).alert])

\* catch (e) of the loop: handleError, isStreamStarting cleared, return.
\* A throw inside the catch block leaves waitForACTIVE and is caught by
\* createStreamSession, which calls handleError again
waitForACTIVE_catch(s, e) ==
    LET he == handleError(e)
        outer == handleError("Other")
    IN /\ seqs' = SetSeq(s, [Finish(seqs[s], "gwfail", e) EXCEPT
                                !.alerted = IF he.throws THEN outer.alert
                                            ELSE he.alert,
                                !.escaped = he.throws /\ outer.throws])
       /\ isStreamStarting' = IF he.throws
                              THEN (IF outer.clear THEN FALSE
                                    ELSE isStreamStarting)
                              ELSE FALSE

\* a GetSession response: await restOperation.response settles
waitForACTIVE_response(s) ==
    /\ UNCHANGED <<formVars, gwVars, statsVars>>
    /\ seqs[s].pc = "get"
    /\ \/ \E st \in SessionStatus :
            IF st = "ACTIVE"
            THEN /\ startStream(s, seqs[s], PolledSignal(s))
                 /\ UNCHANGED <<compVars, mounted, gameliftstreams, constructed,
                                closed, answered, attached, nseq, overlapped>>
            ELSE /\ seqs' = SetSeq(s, [seqs[s] EXCEPT !.pc = "sleep",
                                          !.slept = 0, !.nonActive = @ + 1,
                                          !.lastStatus = st])
                 /\ UNCHANGED <<compVars, mounted, handleVars, nseq, overlapped>>
       \/ /\ \E e \in ErrKind : waitForACTIVE_catch(s, e)
          /\ UNCHANGED <<status, inputEnabled, lastSessionId, mounted,
                         handleVars, nseq, overlapped>>

\* the 1000 ms timer of the loop fires
waitForACTIVE_wake(s) ==
    /\ UNCHANGED <<formVars, gwVars, statsVars>>
    /\ seqs[s].pc = "sleep"
    /\ seqs[s].slept >= SleepTicks
    /\ waitForACTIVE(s, seqs[s])
    /\ UNCHANGED <<status, inputEnabled, lastSessionId, mounted, handleVars, nseq, overlapped>>

\* variant: a reconnect records its session as the last one too
startStream_settle_recordsAll(s) ==
    /\ UNCHANGED <<formVars, gwVars, statsVars>>
    /\ seqs[s].pc = "apply"
    /\ \/ /\ answered' = answered \cup {seqs[s].applyHandle}
          /\ attached' = attached \cup {gameliftstreams}
          /\ opsOnClosed' = UseHandle("attachInput")
          /\ status' = RUNNING
          /\ isStreamStarting' = FALSE
          /\ lastSessionId' = ArnOf(s)
          /\ seqs' = SetSeq(s, [Finish(seqs[s], "running", "none") EXCEPT
                                   !.attachHandle = gameliftstreams])
          /\ UNCHANGED <<inputEnabled, mounted, gameliftstreams, constructed,
                         closed, nseq, overlapped>>
       \/ LET he == handleError("Other")
          IN /\ seqs' = SetSeq(s, [Finish(seqs[s], "negfail", "none") EXCEPT
                                      !.alerted = he.alert])
             /\ isStreamStarting' = IF he.clear \/ seqs[s].kind = "create"
                                    THEN FALSE ELSE isStreamStarting
             /\ UNCHANGED <<status, inputEnabled, lastSessionId, mounted,
                            handleVars, nseq, overlapped>>

\* processSignalResponse settles; on success the rest of startStream runs,
\* and for a poll loop the lastSessionId update that follows it
startStream_settle(s) ==
    /\ UNCHANGED <<formVars, gwVars, statsVars>>
    /\ seqs[s].pc = "apply"
    /\ \/ /\ answered' = answered \cup {seqs[s].applyHandle}
          /\ attached' = attached \cup {gameliftstreams}
          /\ opsOnClosed' = UseHandle("attachInput")
          /\ status' = RUNNING
          /\ isStreamStarting' = FALSE
          /\ lastSessionId' = IF seqs[s].kind = "create" THEN seqs[s].arn
                              ELSE lastSessionId
          /\ seqs' = SetSeq(s, [Finish(seqs[s], "running", "none") EXCEPT
                                   !.attachHandle = gameliftstreams])
          /\ UNCHANGED <<inputEnabled, mounted, gameliftstreams, constructed,
                         closed, nseq, overlapped>>
       \/ LET he == handleError("Other")
          IN /\ seqs' = SetSeq(s, [Finish(seqs[s], "negfail", "none") EXCEPT
                                      !.alerted = he.alert])
             /\ isStreamStarting' = IF he.clear \/ seqs[s].kind = "create"
                                    THEN FALSE ELSE isStreamStarting
             /\ UNCHANGED <<status, inputEnabled, lastSessionId, mounted,
                            handleVars, nseq, overlapped>>

\* ------------------------------------------------------- create sequence
\* click on Start Stream (rendered as such while status is not RUNNING):
\* createStreamSession up to its first await
createStreamSession(s) ==
    /\ UNCHANGED <<formVars, gwVars, statsVars>>
    /\ mounted
    /\ status # RUNNING
    /\ s = nseq + 1
    /\ nseq' = s
    /\ overlapped' = (overlapped \/ \E t \in SeqIds : InFlight(t))
    /\ isStreamStarting' = TRUE
    /\ opsOnClosed' = UseHandle("generateSignalRequest")
    /\ seqs' = SetSeq(s, [NoSeq EXCEPT !.kind = "create", !.pc = "offer",
                                       !.offerHandle = gameliftstreams])
    /\ UNCHANGED <<status, inputEnabled, lastSessionId, mounted, gameliftstreams,
                   constructed, closed, answered, attached>>

\* generateSignalRequest settles: the payload is built and the request is
\* posted, or the rejection leaves the handler (the await is outside the try)
OfferSettles(s, payload) ==
    /\ UNCHANGED <<formVars, gwVars, statsVars>>
    /\ seqs[s].pc = "offer"
    /\ \/ seqs' = SetSeq(s, [seqs[s] EXCEPT !.pc = "post", !.payload = payload])
       \/ seqs' = SetSeq(s, [Finish(seqs[s], "negfail", "none") EXCEPT
                                !.escaped = TRUE])
    /\ UNCHANGED <<compVars, mounted, handleVars, nseq, overlapped>>

createStreamSession_offer(s) ==
    /\ seqs[s].kind = "create"
    /\ OfferSettles(s, StartPayload(seqs[s].offerHandle))

\* catch (e) { this.handleError(e); } of createStreamSession and of
\* createStreamSessionConnection
CatchGateway(s, e) ==
    LET he == handleError(e)
    IN /\ seqs' = SetSeq(s, [Finish(seqs[s], "gwfail", e) EXCEPT
                                !.alerted = he.alert, !.escaped = he.throws])
       /\ isStreamStarting' = IF he.clear THEN FALSE ELSE isStreamStarting

\* the StartSession response: waitForACTIVE(data.arn, this.state.sgId) is
\* entered, or the catch block runs
createStreamSession_response(s) ==
    /\ UNCHANGED <<formVars, gwVars, statsVars>>
    /\ seqs[s].kind = "create"
    /\ seqs[s].pc = "post"
    /\ \/ waitForACTIVE(s, [seqs[s] EXCEPT !.arn = ArnOf(s), !.sg = sgId,
                                             !.elapsed = 0])
       \/ \E e \in ErrKind : CatchGateway(s, e)
    /\ UNCHANGED <<status, inputEnabled, lastSessionId, mounted, handleVars, nseq, overlapped>>

\* ---------------------------------------------------- reconnect sequence
\* click on Reconnect (always rendered): createStreamSessionConnection up
\* to its first await
createStreamSessionConnection(s) ==
    /\ UNCHANGED <<formVars, gwVars, statsVars>>
    /\ mounted
    /\ s = nseq + 1
    /\ nseq' = s
    /\ overlapped' = (overlapped \/ \E t \in SeqIds : InFlight(t))
    /\ isStreamStarting' = TRUE
    /\ opsOnClosed' = UseHandle("generateSignalRequest")
    /\ seqs' = SetSeq(s, [NoSeq EXCEPT !.kind = "reconnect", !.pc = "offer",
                                       !.offerHandle = gameliftstreams])
    /\ UNCHANGED <<status, inputEnabled, lastSessionId, mounted, gameliftstreams,
                   constructed, closed, answered, attached>>

createStreamSessionConnection_offer(s) ==
    /\ seqs[s].kind = "reconnect"
    /\ OfferSettles(s, ReconnectPayload(seqs[s].offerHandle))

\* variant: reconnect waits for ACTIVE like a create does
createStreamSessionConnection_response_polls(s) ==
    /\ UNCHANGED <<formVars, gwVars, statsVars>>
    /\ seqs[s].kind = "reconnect"
    /\ seqs[s].pc = "post"
    /\ \/ waitForACTIVE(s, [seqs[s] EXCEPT !.arn = ArnOf(s), !.sg = sgId])
       \/ \E e \in ErrKind : CatchGateway(s, e)
    /\ UNCHANGED <<status, inputEnabled, lastSessionId, mounted, handleVars,
                   nseq, overlapped>>

\* the CreateConnection response: startStream(data.signalResponse) is
\* entered, or the catch block runs
createStreamSessionConnection_response(s) ==
    /\ UNCHANGED <<formVars, gwVars, statsVars>>
    /\ seqs[s].kind = "reconnect"
    /\ seqs[s].pc = "post"
    /\ \/ /\ startStream(s, seqs[s], ConnSig(s))
          /\ UNCHANGED isStreamStarting
       \/ /\ \E e \in ErrKind : CatchGateway(s, e)
          /\ UNCHANGED opsOnClosed
    /\ UNCHANGED <<status, inputEnabled, lastSessionId, mounted, gameliftstreams,
                   constructed, closed, answered, attached, nseq, overlapped>>

\* ------------------------------------------------------- close, fullscreen
\* variant: close also abandons every sequence still in flight
closeConnection_cancels ==
    /\ UNCHANGED <<formVars, gwVars, statsVars>>
    /\ mounted
    /\ status = RUNNING
    /\ status' = STOPPED
    /\ inputEnabled' = FALSE
    /\ opsOnClosed' = UseHandle("close")
    /\ closed' = closed \cup {gameliftstreams}
    /\ gameliftstreams' = resetGameLiftStreamsSDK(constructed)
    /\ constructed' = constructed \cup {gameliftstreams'}
    /\ isStreamStarting' = FALSE
    /\ seqs' = [s \in SeqIds |-> IF InFlight(s)
                                 THEN Finish(seqs[s], "cancelled", "none")
                                 ELSE seqs[s]]
    /\ UNCHANGED <<lastSessionId, mounted, answered, attached, nseq, overlapped>>

\* variant: the old handle is replaced without close() being called on it
closeConnection_noClose ==
    /\ UNCHANGED <<formVars, gwVars, statsVars>>
    /\ mounted
    /\ status = RUNNING
    /\ status' = STOPPED
    /\ inputEnabled' = FALSE
    /\ gameliftstreams' = resetGameLiftStreamsSDK(constructed)
    /\ constructed' = constructed \cup {gameliftstreams'}
    /\ isStreamStarting' = FALSE
    /\ UNCHANGED <<lastSessionId, mounted, closed, answered, attached,
                   opsOnClosed, nseq, overlapped, seqs>>

\* variant: close() without resetGameLiftStreamsSDK()
closeConnection_noReset ==
    /\ UNCHANGED <<formVars, gwVars, statsVars>>
    /\ mounted
    /\ status = RUNNING
    /\ status' = STOPPED
    /\ inputEnabled' = FALSE
    /\ opsOnClosed' = UseHandle("close")
    /\ closed' = closed \cup {gameliftstreams}
    /\ isStreamStarting' = FALSE
    /\ UNCHANGED <<lastSessionId, mounted, gameliftstreams, constructed,
                   answered, attached, nseq, overlapped, seqs>>

\* variant: close also forgets the last session
closeConnection_forgets ==
    /\ UNCHANGED <<sgId, appId, sessionId, regions, gwVars, statsVars>>
    /\ mounted
    /\ status = RUNNING
    /\ status' = STOPPED
    /\ inputEnabled' = FALSE
    /\ opsOnClosed' = UseHandle("close")
    /\ closed' = closed \cup {gameliftstreams}
    /\ gameliftstreams' = resetGameLiftStreamsSDK(constructed)
    /\ constructed' = constructed \cup {gameliftstreams'}
    /\ isStreamStarting' = FALSE
    /\ lastSessionId' = 0
    /\ UNCHANGED <<mounted, answered, attached, nseq, overlapped, seqs>>

\* variant: close leaves inputEnabled as it is
closeConnection_keepsInput ==
    /\ UNCHANGED <<formVars, gwVars, statsVars>>
    /\ mounted
    /\ status = RUNNING
    /\ status' = STOPPED
    /\ opsOnClosed' = UseHandle("close")
    /\ closed' = closed \cup {gameliftstreams}
    /\ gameliftstreams' = resetGameLiftStreamsSDK(constructed)
    /\ constructed' = constructed \cup {gameliftstreams'}
    /\ isStreamStarting' = FALSE
    /\ UNCHANGED <<inputEnabled, lastSessionId, mounted, answered, attached,
                   nseq, overlapped, seqs>>

\* click on End Stream (the same button, while status is RUNNING)
closeConnection ==
    /\ UNCHANGED <<formVars, gwVars, statsVars>>
    /\ mounted
    /\ status = RUNNING
    /\ status' = STOPPED
    /\ inputEnabled' = FALSE
    /\ opsOnClosed' = UseHandle("close")
    /\ closed' = closed \cup {gameliftstreams}
    /\ gameliftstreams' = resetGameLiftStreamsSDK(constructed)
    /\ constructed' = constructed \cup {gameliftstreams'}
    /\ isStreamStarting' = FALSE
    /\ UNCHANGED <<lastSessionId, mounted, answered, attached, nseq,
                   overlapped, seqs>>

\* click on Fullscreen (rendered only while status is RUNNING)
enableFullScreen ==
    /\ UNCHANGED <<formVars, gwVars, statsVars>>
    /\ mounted
    /\ status = RUNNING
    /\ opsOnClosed' = UseHandle("attachInput")
    /\ attached' = attached \cup {gameliftstreams}
    /\ inputEnabled' = TRUE
    /\ UNCHANGED <<status, isStreamStarting, lastSessionId, mounted,
                   gameliftstreams, constructed, closed, answered, nseq,
                   overlapped, seqs>>

\* ------------------------------------------------------------ form fields
\* what the user types into a text field
Typed == {<<" ">>, <<" ", "a", "/", "b", " ">>}

FieldNames == {"sgId", "appId", "sessionId"}

\* the options of the Region select
RegionOptions == {"ap-northeast-1", "eu-central-1", "eu-west-1",
                  "us-east-1", "us-east-2", "us-west-2"}

\* onChange of a text input: state[name] = value.trim()
handleInputChange(name, value) ==
    /\ mounted
    /\ sgId' = IF name = "sgId" THEN Trim(value) ELSE sgId
    /\ appId' = IF name = "appId" THEN Trim(value) ELSE appId
    /\ sessionId' = IF name = "sessionId" THEN Trim(value) ELSE sessionId
    /\ UNCHANGED <<compVars, mounted, handleVars, regions, nseq, overlapped,
                   seqs, gwVars, statsVars>>

\* onChange of the Region select: regions = [region]
handleRegionChange(region) ==
    /\ mounted
    /\ regions' = <<region>>
    /\ UNCHANGED <<compVars, mounted, handleVars, sgId, appId, sessionId,
                   nseq, overlapped, seqs, gwVars, statsVars>>

\* ------------------------------------------------------------------ time
Min(a, b) == IF a < b THEN a ELSE b

Polling(s) == seqs[s].pc \in {"get", "sleep"}

\* one poll interval passes: every running loop is one tick further from
\* its startTime (counted up to timeoutMs, the only value it is compared
\* with), every pending timer one tick nearer to firing
Tick ==
    /\ UNCHANGED <<formVars, gwVars, statsVars>>
    /\ \E s \in SeqIds : /\ Polling(s)
                         /\ \/ seqs[s].elapsed < TimeoutTicks
                            \/ seqs[s].pc = "sleep" /\ seqs[s].slept < SleepTicks
    /\ seqs' = [s \in SeqIds |->
                  IF Polling(s)
                  THEN [seqs[s] EXCEPT
                          !.elapsed = Min(@ + 1, TimeoutTicks),
                          !.slept = IF seqs[s].pc = "sleep"
                                    THEN Min(@ + 1, SleepTicks) ELSE @]
                  ELSE seqs[s]]
    /\ UNCHANGED <<compVars, mounted, handleVars, nseq, overlapped>>

\* --------------------------------------------------------------- Gateway
\* The three Lambda handlers behind the API (StartStream.js and the
\* get-stream-session and reconnect handlers).  gw is the invocation in
\* progress; the await of the control-plane call is its one step boundary.

\* null
Null == <<"null">>

\* a property read: obj.name, undefined when the property is missing
Field(obj, name) == IF name \in DOMAIN obj THEN obj[name] ELSE Undefined

\* a ?? d
Nullish(a, d) == IF a \in {Undefined, Null} THEN d ELSE a

\* JSON.stringify of an object, as the event carries it
JSONstringify(obj) == [kind |-> "json", obj |-> obj]

\* event.body of a request without body (API Gateway passes null), and a
\* body that is not JSON text ('' included)
NullBody == [kind |-> "null"]
InvalidBody == [kind |-> "invalid"]

\* JSON.parse: null parses to null, anything that is not JSON text throws
JSONparse(text) ==
    CASE text.kind = "json" ->
             [throws |-> FALSE, isNull |-> FALSE, value |-> text.obj]
      [] text.kind = "null" -> [throws |-> FALSE, isNull |-> TRUE]
      [] OTHER -> [throws |-> TRUE]

\* Number(str) of a string of decimal digits
Digits == <<"0", "1", "2", "3", "4", "5", "6", "7", "8", "9">>

DigitValue(c) == (CHOOSE i \in 1..Len(Digits) : Digits[i] = c) - 1

RECURSIVE NumberFrom(_, _)
NumberFrom(str, acc) ==
    IF str = <<>> THEN acc
    ELSE NumberFrom(Tail(str), acc * 10 + DigitValue(Head(str)))

Number(str) == NumberFrom(str, 0)

\* decodeURIComponent: %2F and %25 are the escapes the requests carry; a
\* truncated escape or a byte that is not UTF-8 (%FF) is a URIError;
\* undefined is decoded as the string 'undefined'
PercentCodes == {<<"2", "F">>, <<"2", "5">>}

Unescaped(code) == IF code = <<"2", "F">> THEN "/" ELSE "%"

RECURSIVE DecodeFrom(_, _)
DecodeFrom(str, acc) ==
    IF str = <<>> THEN [throws |-> FALSE, value |-> acc]
    ELSE IF Head(str) # "%"
         THEN DecodeFrom(Tail(str), Append(acc, Head(str)))
    ELSE IF Len(str) < 3 \/ SubSeq(str, 2, 3) \notin PercentCodes
         THEN [throws |-> TRUE, value |-> <<>>]
    ELSE DecodeFrom(SubSeq(str, 4, Len(str)),
                    Append(acc, Unescaped(SubSeq(str, 2, 3))))

decodeURIComponent(str) ==
    IF str = Undefined
    THEN DecodeFrom(<<"u", "n", "d", "e", "f", "i", "n", "e", "d">>, <<>>)
    ELSE DecodeFrom(str, <<>>)

\* process.env.CONNECTION_TIMEOUT as a deployment sets it
EnvValues == {Unset, <<>>, <<"1", "0">>}

\* session ARNs other clients send: up to MaxSegs segments joined by '/'
\* (a group id 'sg', the word 'ss'), and ARNs with an empty segment
Segs == {<<"s", "g">>, <<"s", "s">>}

RECURSIVE Join(_)
Join(parts) ==
    IF Len(parts) = 1 THEN parts[1]
    ELSE parts[1] \o <<"/">> \o Join(Tail(parts))

EdgeArns == {<<"/">>, <<"s", "g", "/">>, <<"/", "s", "g">>, <<"s", "g", "/", "/", "s", "s">>}

Arns ==
    {Join(parts) : parts \in UNION {[1..n -> Segs] : n \in 1..MaxSegs}}
    \cup EdgeArns

\* path parameters, URI-encoded
EncodedParams ==
    {<<"s", "g">>, <<"s", "g", "%", "2", "F", "1">>, <<"%", "2", "5">>,
     <<"%">>, <<"s", "%", "2">>, <<"%", "F", "F">>}

\* outcomes of a control-plane call
CpErrors ==
    {"AccessDeniedException", "ResourceNotFoundException",
     "ThrottlingException", "InternalServerException"}

SignalResponses == {Undefined, <<"answer">>}

SessionOutcomes ==
    {[ok |-> TRUE, SignalResponse |-> sr, Arn |-> <<"s", "g", "/", "1">>,
      Location |-> "us-west-2", Status |-> st] :
         sr \in SignalResponses, st \in SessionStatus}

ConnectionOutcomes == {[ok |-> TRUE, SignalResponse |-> sr] : sr \in SignalResponses}

FailureOutcomes == {[ok |-> FALSE, name |-> e, message |-> e] : e \in CpErrors}

\* no Lambda invocation in progress
NoInvocation ==
    [fn |-> "none", pc |-> "idle", event |-> [from |-> "none"],
     cpCalls |-> 0, cpRequest |-> [op |-> "none"],
     cpOutcome |-> [settled |-> FALSE], response |-> [statusCode |-> 0]]

Invocation(fn, event) == [NoInvocation EXCEPT !.fn = fn, !.event = event]

\* return { statusCode: 200, ..., body: JSON.stringify(fields) }
SuccessResponse(fields) == [statusCode |-> 200, body |-> fields]

\* variant: the status code depends on the kind of failure
ErrorResponse_byKind(message) ==
    [statusCode |-> IF message = "ThrottlingException" THEN 429 ELSE 500,
     body |-> [message |-> message]]

\* catch (e): return { statusCode: 500, ..., body: { message: e.message } }
ErrorResponse(message) ==
    [statusCode |-> 500, body |-> [message |-> message]]

\* the session fields the start and get handlers return
SessionFields(streamSession) ==
    [signalResponse |-> Nullish(streamSession.SignalResponse, <<>>),
     arn |-> streamSession.Arn,
     region |-> streamSession.Location,
     status |-> streamSession.Status]

\* a new deployment sets the environment of the functions
Deploy(value) ==
    /\ gw.pc = "idle"
    /\ value # env
    /\ env' = value
    /\ UNCHANGED <<mounted, compVars, handleVars, formVars, nseq,
                   overlapped, seqs, gw, statsVars>>

ctrlVars == <<mounted, compVars, handleVars, formVars, nseq, overlapped, seqs>>

\* -- start handler (StartStream.js)
\* requests that reach the start handler: the one the component posts
\* from its current fields, and those of other clients
StartEvents ==
    {[from |-> "component", body |-> JSONstringify(StartPayload(gameliftstreams))] :
         m \in {mounted} \ {FALSE}}
    \cup {[from |-> "other", body |-> b] :
            b \in {InvalidBody, NullBody,
                   JSONstringify([SignalRequest |-> 0]),
                   JSONstringify([AppIdentifier |-> <<"a">>,
                                  SGIdentifier |-> <<"s", "g">>,
                                  UserId |-> <<"u">>,
                                  SignalRequest |-> 0,
                                  Regions |-> <<"us-west-2", "us-east-1">>])}}

\* Number(process.env.CONNECTION_TIMEOUT || 120)
ConnectionTimeoutSeconds ==
    IF env = Unset \/ env = <<>> THEN 120 ELSE Number(env)

\* variant: only the first region is forwarded
StartStreamRequest_firstRegion(body) ==
    [op |-> "startStreamSession",
     Identifier |-> Field(body, "SGIdentifier"),
     ApplicationIdentifier |-> Field(body, "AppIdentifier"),
     Protocol |-> "WebRTC",
     UserId |-> Field(body, "UserId"),
     SignalRequest |-> Field(body, "SignalRequest"),
     ConnectionTimeoutSeconds |-> ConnectionTimeoutSeconds,
     Locations |-> SubSeq(Field(body, "Regions"), 1, 1),
     PerformanceStatsConfiguration |-> [SharedWithClient |-> TRUE]]

\* the input of gameLiftStreams.startStreamSession
StartStreamRequest(body) ==
    [op |-> "startStreamSession",
     Identifier |-> Field(body, "SGIdentifier"),
     ApplicationIdentifier |-> Field(body, "AppIdentifier"),
     Protocol |-> "WebRTC",
     UserId |-> Field(body, "UserId"),
     SignalRequest |-> Field(body, "SignalRequest"),
     ConnectionTimeoutSeconds |-> ConnectionTimeoutSeconds,
     Locations |-> Field(body, "Regions"),
     PerformanceStatsConfiguration |-> [SharedWithClient |-> TRUE]]

\* the handler up to its await: JSON.parse runs before the try, so bad
\* JSON rejects the invocation; reading a field of null is caught
StartStream_handler(event) ==
    /\ gw.pc = "idle"
    /\ LET parsed == JSONparse(event.body)
           inv == Invocation("start", event)
       IN  gw' = IF parsed.throws THEN [inv EXCEPT !.pc = "threw"]
                 ELSE IF parsed.isNull
                 THEN [inv EXCEPT !.pc = "returned",
                                  !.response = ErrorResponse("TypeError")]
                 ELSE [inv EXCEPT !.pc = "awaiting",
                                  !.cpCalls = 1,
                                  !.cpRequest = StartStreamRequest(parsed.value)]
    /\ UNCHANGED <<ctrlVars, env, statsVars>>

\* variant: a throttled call is issued again
StartStream_settle_retries ==
    /\ gw.fn = "start"
    /\ gw.pc = "awaiting"
    /\ \E o \in SessionOutcomes \cup FailureOutcomes :
          gw' = IF o.ok
                THEN [gw EXCEPT !.pc = "returned", !.cpOutcome = o,
                                !.response = SuccessResponse(SessionFields(o))]
                ELSE IF o.name = "ThrottlingException" /\ gw.cpCalls < 2
                THEN [gw EXCEPT !.cpCalls = @ + 1]
                ELSE [gw EXCEPT !.pc = "returned", !.cpOutcome = o,
                                !.response = ErrorResponse(o.message)]
    /\ UNCHANGED <<ctrlVars, env, statsVars>>

\* startStreamSession settles: the 200 response, or the catch
StartStream_settle ==
    /\ gw.fn = "start"
    /\ gw.pc = "awaiting"
    /\ \E o \in SessionOutcomes \cup FailureOutcomes :
          gw' = [gw EXCEPT !.pc = "returned", !.cpOutcome = o,
                           !.response = IF o.ok
                                        THEN SuccessResponse(SessionFields(o))
                                        ELSE ErrorResponse(o.message)]
    /\ UNCHANGED <<ctrlVars, env, statsVars>>

\* -- get-stream-session handler
GetEvents ==
    {[from |-> "other"]}
    \cup {[from |-> "other", pathParameters |-> [sg |-> sg, arn |-> arn]] :
            sg \in EncodedParams, arn \in EncodedParams}
    \cup {[from |-> "other", pathParameters |-> [sg |-> sg]] : sg \in EncodedParams}

\* const { sg, arn } = event.pathParameters || {}; both are decoded inside
\* the try, sg first
GetStreamSession_handler(event) ==
    /\ gw.pc = "idle"
    /\ LET params == IF "pathParameters" \in DOMAIN event
                     THEN event.pathParameters ELSE <<>>
           sg == decodeURIComponent(Field(params, "sg"))
           arn == decodeURIComponent(Field(params, "arn"))
           inv == Invocation("get", event)
       IN  gw' = IF sg.throws \/ arn.throws
                 THEN [inv EXCEPT !.pc = "returned",
                                  !.response = ErrorResponse("URIError")]
                 ELSE [inv EXCEPT !.pc = "awaiting",
                                  !.cpCalls = 1,
                                  !.cpRequest =
                                      [op |-> "getStreamSession",
                                       Identifier |-> sg.value,
                                       StreamSessionIdentifier |-> arn.value]]
    /\ UNCHANGED <<ctrlVars, env, statsVars>>

\* getStreamSession settles
GetStreamSession_settle ==
    /\ gw.fn = "get"
    /\ gw.pc = "awaiting"
    /\ \E o \in SessionOutcomes \cup FailureOutcomes :
          gw' = [gw EXCEPT !.pc = "returned", !.cpOutcome = o,
                           !.response = IF o.ok
                                        THEN SuccessResponse(SessionFields(o))
                                        ELSE ErrorResponse(o.message)]
    /\ UNCHANGED <<ctrlVars, env, statsVars>>

\* -- reconnect handler
ReconnectEvents ==
    {[from |-> "component", body |-> JSONstringify(ReconnectPayload(gameliftstreams))] :
         m \in {mounted} \ {FALSE}}
    \cup {[from |-> "other", body |-> b] :
            b \in {InvalidBody, NullBody, JSONstringify([SignalRequest |-> 0])}}
    \cup {[from |-> "other",
           body |-> JSONstringify([SessionIdentifier |-> arn,
                                   SGIdentifier |-> <<"o">>,
                                   SignalRequest |-> 0])] : arn \in Arns}

\* variant: the last segment
StreamGroupOf_lastSegment(SessionIdentifier) ==
    LET parts == Split(SessionIdentifier)
    IN  parts[Len(parts)]

\* parts = SessionIdentifier.split("/"); sg_arn = parts[parts.length - 2]
StreamGroupOf(SessionIdentifier) ==
    LET parts == Split(SessionIdentifier)
    IN  IF Len(parts) >= 2 THEN parts[Len(parts) - 1] ELSE Undefined

\* the handler up to its await; .split of an undefined SessionIdentifier
\* is caught
Reconnect_handler(event) ==
    /\ gw.pc = "idle"
    /\ LET parsed == JSONparse(event.body)
           inv == Invocation("reconnect", event)
       IN  gw' = IF parsed.throws THEN [inv EXCEPT !.pc = "threw"]
                 ELSE IF parsed.isNull
                         \/ Field(parsed.value, "SessionIdentifier") = Undefined
                 THEN [inv EXCEPT !.pc = "returned",
                                  !.response = ErrorResponse("TypeError")]
                 ELSE [inv EXCEPT
                          !.pc = "awaiting",
                          !.cpCalls = 1,
                          !.cpRequest =
                              [op |-> "createStreamSessionConnection",
                               Identifier |->
                                   StreamGroupOf(parsed.value.SessionIdentifier),
                               StreamSessionIdentifier |->
                                   parsed.value.SessionIdentifier,
                               SignalRequest |->
                                   Field(parsed.value, "SignalRequest")]]
    /\ UNCHANGED <<ctrlVars, env, statsVars>>

\* createStreamSessionConnection settles
Reconnect_settle ==
    /\ gw.fn = "reconnect"
    /\ gw.pc = "awaiting"
    /\ \E o \in ConnectionOutcomes \cup FailureOutcomes :
          gw' = [gw EXCEPT
                    !.pc = "returned", !.cpOutcome = o,
                    !.response =
                        IF o.ok
                        THEN SuccessResponse(
                                 [signalResponse |-> Nullish(o.SignalResponse, <<>>)])
                        ELSE ErrorResponse(o.message)]
    /\ UNCHANGED <<ctrlVars, env, statsVars>>

\* the invocation is over; the function takes the next request
LambdaReturn ==
    /\ gw.pc \in {"returned", "threw"}
    /\ gw' = NoInvocation
    /\ UNCHANGED <<ctrlVars, env, statsVars>>

\* ---------------------------------------------------------- StatsOverlay
\* The overlay as React runs it: a render commits the closure its functions
\* capture, passive effects run after the commit and before the next
\* render, and an interval keeps the closure of the render that armed it.
\* Renders, effects and the statistics fetch take less than one sampling
\* period, so time advances only when none is pending.

\* undefined, for a number; a number n is <<n>>
NoNumber == <<>>

\* useState<NetworkStats>({})
NoStats == [rtt |-> NoNumber, jitter |-> NoNumber, bitrate |-> NoNumber]

\* the component before it is mounted: useState and useRef initial values,
\* default props
InitialOverlay ==
    [phase |-> "unmounted", isVisible |-> TRUE, networkStats |-> NoStats,
     frameRate |-> NoNumber, isStreamRunning |-> FALSE, gameliftstreams |-> 0,
     statsIntervalRef |-> 0, previousBytesReceivedRef |-> 0,
     previousTimestampRef |-> 0]

\* the values a render's toggleStats, startStatsLogging, interval callback
\* and processStats close over
Captured(o) ==
    [isVisible |-> o.isVisible, isStreamRunning |-> o.isStreamRunning,
     gameliftstreams |-> o.gameliftstreams,
     networkStats |-> o.networkStats, frameRate |-> o.frameRate]

NoFetch == [active |-> FALSE]

\* handles the parent can pass as the gameliftstreams prop (0: undefined)
OverlayHandles == {0, 1, 2}

\* nothing observed yet: no fetch while hidden, no toggle since the stream
\* started, the overlay was not hidden when it started, no video sample
\* processed (cur is the last one: bytes, time), no session has delivered
\* bytes
NoHistory ==
    [hiddenFetch |-> FALSE, toggled |-> FALSE, hiddenAtStart |-> FALSE,
     lastHadSample |-> FALSE,
     cur |-> <<>>, session |-> [handle |-> 0, bytes |-> 0]]

TimerIds == 1..MaxTimers

\* clearInterval(id)
clearInterval(armed, id) == {t \in armed : t.id # id}

\* the id setInterval returns: one that is neither armed nor in the ref
FreshIds(armed, ref) == {i \in TimerIds : i # ref /\ \A t \in armed : t.id # i}

SetMin(S) == CHOOSE m \in S : \A x \in S : m <= x

SetMax(S) == CHOOSE m \in S : \A x \in S : x <= m

\* variant: the recorded interval is not cleared before arming
startStatsLogging_noClear(c, ref, armed) ==
    LET id == SetMin(FreshIds(armed, ref))
    IN  [ref |-> id,
         timers |-> armed \cup {[id |-> id, due |-> FALSE, c |-> c]}]

\* startStatsLogging of the render with closure c: clear the recorded
\* interval, arm a new one, record it
startStatsLogging(c, ref, armed) ==
    LET cleared == IF ref # 0 THEN clearInterval(armed, ref) ELSE armed
        id == SetMin(FreshIds(cleared, ref))
    IN  [ref |-> id,
         timers |-> cleared \cup {[id |-> id, due |-> FALSE, c |-> c]}]

\* stopStatsLogging
stopStatsLogging(ref, armed) ==
    IF ref # 0 THEN [ref |-> 0, timers |-> clearInterval(armed, ref)]
    ELSE [ref |-> ref, timers |-> armed]

\* the render is up to date with props and state
Committed == Captured(ov) = closure

\* first render and commit, with the props the parent passes
StatsOverlay_mount(isStreamRunning, gameliftstreams_) ==
    /\ ov.phase = "unmounted"
    /\ ov' = [InitialOverlay EXCEPT !.phase = "mounted",
                                    !.isStreamRunning = isStreamRunning,
                                    !.gameliftstreams = gameliftstreams_]
    /\ closure' = Captured(ov')
    /\ effects' = {"logging", "autoShow"}
    /\ UNCHANGED <<timers, fetching, clock, hist>>
    /\ UNCHANGED <<ctrlVars, gwVars, bars>>

\* a re-render and commit: the parent passes new props, or a state update
\* is pending; the effects whose dependencies changed are scheduled
StatsOverlay_render(isStreamRunning, gameliftstreams_) ==
    /\ ov.phase = "mounted"
    /\ effects = {}
    /\ ov' = [ov EXCEPT !.isStreamRunning = isStreamRunning,
                        !.gameliftstreams = gameliftstreams_]
    /\ closure' = Captured(ov')
    /\ closure' # closure
    /\ effects' =
          (IF <<closure'.isVisible, closure'.isStreamRunning,
                closure'.gameliftstreams>>
               # <<closure.isVisible, closure.isStreamRunning,
                   closure.gameliftstreams>>
           THEN {"logging"} ELSE {})
          \cup (IF closure'.isStreamRunning # closure.isStreamRunning
                THEN {"autoShow"} ELSE {})
    /\ hist' = IF closure'.isStreamRunning /\ ~closure.isStreamRunning
               THEN [hist EXCEPT !.toggled = FALSE,
                                 !.hiddenAtStart = ~ov.isVisible]
               ELSE hist
    /\ UNCHANGED <<timers, fetching, clock>>
    /\ UNCHANGED <<ctrlVars, gwVars, bars>>

\* variant: the logging effect looks at visibility only
loggingEffect_visibleOnly(c, ref, armed) ==
    IF c.isVisible
    THEN startStatsLogging(c, ref, armed)
    ELSE stopStatsLogging(ref, armed)

\* useEffect(..., [isVisible, isStreamRunning, gameliftstreams])
loggingEffect(c, ref, armed) ==
    IF c.isVisible /\ c.isStreamRunning
    THEN startStatsLogging(c, ref, armed)
    ELSE stopStatsLogging(ref, armed)

\* variant: no automatic show
autoShowEffect_never(c, isVisible) == isVisible

\* useEffect(..., [isStreamRunning]): setIsVisible(true) when running
autoShowEffect(c, isVisible) == IF c.isStreamRunning THEN TRUE ELSE isVisible

\* the scheduled passive effects run, in the order of their declaration
StatsOverlay_effects ==
    /\ ov.phase = "mounted"
    /\ effects # {}
    /\ FreshIds(timers, ov.statsIntervalRef) # {}
    /\ LET log == IF "logging" \in effects
                  THEN loggingEffect(closure, ov.statsIntervalRef, timers)
                  ELSE [ref |-> ov.statsIntervalRef, timers |-> timers]
       IN  /\ timers' = log.timers
           /\ ov' = [ov EXCEPT !.statsIntervalRef = log.ref,
                               !.isVisible =
                                   IF "autoShow" \in effects
                                   THEN autoShowEffect(closure, @) ELSE @]
    /\ effects' = {}
    /\ UNCHANGED <<closure, fetching, clock, hist>>
    /\ UNCHANGED <<ctrlVars, gwVars, bars>>

\* the parent calls ref.current.toggleStats(), the function of the
\* committed render
toggleStats ==
    /\ ov.phase = "mounted"
    /\ FreshIds(timers, ov.statsIntervalRef) # {}
    /\ LET newVisibility == ~closure.isVisible
           log == IF newVisibility
                  THEN startStatsLogging(closure, ov.statsIntervalRef, timers)
                  ELSE stopStatsLogging(ov.statsIntervalRef, timers)
       IN  /\ ov' = [ov EXCEPT !.isVisible = newVisibility,
                               !.statsIntervalRef = log.ref]
           /\ timers' = log.timers
    /\ hist' = [hist EXCEPT !.toggled = TRUE]
    /\ UNCHANGED <<closure, effects, fetching, clock>>
    /\ UNCHANGED <<ctrlVars, gwVars, bars>>

\* the interval callback of timer t, up to its await
statsInterval_tick(t) ==
    /\ t \in timers
    /\ t.due
    /\ ~fetching.active
    /\ timers' = (timers \ {t}) \cup {[t EXCEPT !.due = FALSE]}
    /\ IF t.c.gameliftstreams # 0 /\ t.c.isVisible
       THEN /\ fetching' = [active |-> TRUE, c |-> t.c]
            /\ hist' = [hist EXCEPT !.hiddenFetch =
                                       @ \/ ~ov.isVisible \/ ~closure.isVisible]
       ELSE UNCHANGED <<fetching, hist>>
    /\ UNCHANGED <<ov, closure, effects, clock>>
    /\ UNCHANGED <<ctrlVars, gwVars, bars>>

\* Math.round(n / d) for d > 0: the nearest integer, halves upwards
MathRound(n, d) == (2 * n + d) \div (2 * d)

\* (n / d).toFixed(2), as hundredths; d is a multiple of 200
toFixed2(n, d) ==
    IF n >= 0 THEN (n + d \div 200) \div (d \div 100)
    ELSE 0 - ((0 - n) + d \div 200) \div (d \div 100)

\* x ? f(x) : undefined for an optional number x
RoundedIfTruthy(x, d) ==
    IF x # NoNumber /\ x[1] # 0 THEN <<MathRound(x[1], d)>> ELSE NoNumber

\* the body of stats.forEach; acc carries newNetworkStats, newFrameRate and
\* the two refs.  Seconds are reported in units of 0.0001 s, frames per
\* second in tenths, so that d = 10 is the conversion in both cases.
RECURSIVE ProcessReports(_, _)
ProcessReports(reports, acc) ==
    IF reports = <<>> THEN acc
    ELSE
    LET report == Head(reports)
        inbound ==
            IF report.type = "inbound-rtp" /\ report.framesPerSecond # NoNumber
            THEN LET rated == report.bytesReceived # 0 /\ acc.prevBytes # 0
                     timeDiff == clock - acc.prevTs
                     bytesDiff == report.bytesReceived - acc.prevBytes
                 IN  [acc EXCEPT
                        !.frameRate = <<MathRound(report.framesPerSecond[1], 10)>>,
                        !.networkStats.jitter = RoundedIfTruthy(report.jitter, 10),
                        !.networkStats.bitrate =
                            IF rated
                            THEN <<toFixed2(bytesDiff * 8, timeDiff * 1000000)>>
                            ELSE @,
                        !.prevTs = IF rated THEN clock ELSE @,
                        !.prevBytes = report.bytesReceived]
            ELSE acc
        pair ==
            IF report.type = "candidate-pair" /\ report.state = "succeeded"
            THEN [inbound EXCEPT
                    !.networkStats.rtt =
                        RoundedIfTruthy(report.currentRoundTripTime, 10)]
            ELSE inbound
    IN  ProcessReports(Tail(reports), pair)

\* variant: the baseline timestamp is not taken when the baseline is unset
processStats_epochBaseline(c, stats) ==
    ProcessReports(stats,
        [networkStats |-> c.networkStats,
         frameRate |-> c.frameRate,
         prevBytes |-> ov.previousBytesReceivedRef,
         prevTs |-> ov.previousTimestampRef])

\* processStats of the render with closure c: what it leaves in the refs
\* and hands to setNetworkStats and setFrameRate
processStats(c, stats) ==
    ProcessReports(stats,
        [networkStats |-> c.networkStats,
         frameRate |-> c.frameRate,
         prevBytes |-> ov.previousBytesReceivedRef,
         prevTs |-> IF ov.previousBytesReceivedRef = 0
                    THEN clock ELSE ov.previousTimestampRef])

\* the video samples of a snapshot, as processStats takes them
VideoSamples(stats) ==
    SelectSeq(stats, LAMBDA report :
        report.type = "inbound-rtp" /\ report.framesPerSecond # NoNumber)

\* the received-bytes counters of a snapshot
InboundBytes(stats) ==
    {stats[i].bytesReceived :
        i \in {j \in 1..Len(stats) : stats[j].type = "inbound-rtp"}}

\* getVideoRTCStats resolves with a snapshot: processStats runs in the
\* closure of the interval that asked.  The counter of a session does not
\* decrease; another handle is another session.
getVideoRTCStats_resolves(stats) ==
    /\ fetching.active
    /\ \A b \in InboundBytes(stats) :
          hist.session.handle = fetching.c.gameliftstreams
              => b >= hist.session.bytes
    /\ LET out == processStats(fetching.c, stats)
           vs == VideoSamples(stats)
       IN  /\ ov' = [ov EXCEPT
                       !.networkStats = IF ov.phase = "mounted"
                                        THEN out.networkStats ELSE @,
                       !.frameRate = IF ov.phase = "mounted"
                                     THEN out.frameRate ELSE @,
                       !.previousBytesReceivedRef = out.prevBytes,
                       !.previousTimestampRef = out.prevTs]
           /\ hist' = [hist EXCEPT
                         !.lastHadSample = vs # <<>>,
                         !.cur = IF vs # <<>>
                                 THEN <<vs[1].bytesReceived, clock>> ELSE @,
                         !.session =
                             IF InboundBytes(stats) # {}
                             THEN [handle |-> fetching.c.gameliftstreams,
                                   bytes |-> SetMax(InboundBytes(stats))]
                             ELSE @]
    /\ fetching' = NoFetch
    /\ UNCHANGED <<closure, effects, timers, clock>>
    /\ UNCHANGED <<ctrlVars, gwVars, bars>>

\* getVideoRTCStats rejects: console.error only
getVideoRTCStats_rejects ==
    /\ fetching.active
    /\ fetching' = NoFetch
    /\ UNCHANGED <<ov, closure, effects, timers, clock, hist>>
    /\ UNCHANGED <<ctrlVars, gwVars, bars>>

\* one sampling period passes: every armed interval is due
Advance ==
    /\ ov.phase = "mounted"
    /\ effects = {}
    /\ Committed
    /\ ~fetching.active
    /\ \A t \in timers : ~t.due
    /\ clock < MaxClock
    /\ clock' = clock + 1
    /\ timers' = {[t EXCEPT !.due = TRUE] : t \in timers}
    /\ UNCHANGED <<ov, closure, effects, fetching, hist>>
    /\ UNCHANGED <<ctrlVars, gwVars, bars>>

\* the parent removes the overlay: the cleanup of the [] effect runs
StatsOverlay_unmount ==
    /\ ov.phase = "mounted"
    /\ effects = {}
    /\ LET log == stopStatsLogging(ov.statsIntervalRef, timers)
       IN  /\ ov' = [ov EXCEPT !.phase = "gone", !.statsIntervalRef = log.ref]
           /\ timers' = log.timers
    /\ UNCHANGED <<closure, effects, fetching, clock, hist>>
    /\ UNCHANGED <<ctrlVars, gwVars, bars>>

\* {x || '-'} in the render: the text shown for an optional number
Displayed(x) == IF x = NoNumber \/ x[1] = 0 THEN "-" ELSE ToString(x[1])

\* -- createStatBar
\* metric values as the render passes them: numbers in hundredths,
\* undefined, null, NaN and the string '-'
MetricNumber(n) == [kind |-> "number", n |-> n]

MetricUndefined == [kind |-> "undefined", n |-> 0]

MetricNull == [kind |-> "null", n |-> 0]

MetricNaN == [kind |-> "NaN", n |-> 0]

MetricDash == [kind |-> "dash", n |-> 0]

\* parseFloat(value): a number is itself; undefined, null and '-' have no
\* leading numeral
parseFloat(value) == IF value.kind = "number" THEN value ELSE MetricNaN

isNaN(value) == value.kind = "NaN"

\* value || '-' for a value of the placeholder branch, as text
OrDash(value) == "-"

\* numValue.toFixed(2), as text
toFixedText(n) ==
    LET a == IF n >= 0 THEN n ELSE 0 - n
    IN  (IF n < 0 THEN "-" ELSE "") \o ToString(a \div 100) \o "."
            \o ToString((a % 100) \div 10) \o ToString(a % 10)

\* Math.min((numValue / maxValue) * 100, 100) for maxValue > 0, as a
\* fraction <<numerator, denominator>>
Percentage(numValue, maxValue) ==
    IF numValue >= maxValue THEN <<100, 1>> ELSE <<numValue * 100, maxValue>>

NoBars == [drawn |-> FALSE]

\* variant: good only below the threshold
createStatBar_below(value, maxValue, threshold) ==
    IF \/ value = MetricDash
       \/ value = MetricUndefined
       \/ value = MetricNull
       \/ isNaN(parseFloat(value))
    THEN [fill |-> "none", percentage |-> <<0, 1>>, text |-> OrDash(value)]
    ELSE LET numValue == parseFloat(value).n
         IN  [fill |-> IF numValue < threshold THEN "good" ELSE "bad",
              percentage |-> Percentage(numValue, maxValue),
              text |-> toFixedText(numValue)]

\* createStatBar(value, maxValue, threshold): the bar-fill element (none
\* in the placeholder branch), its width and the text beside it
createStatBar(value, maxValue, threshold) ==
    IF \/ value = MetricDash
       \/ value = MetricUndefined
       \/ value = MetricNull
       \/ isNaN(parseFloat(value))
    THEN [fill |-> "none", percentage |-> <<0, 1>>, text |-> OrDash(value)]
    ELSE LET numValue == parseFloat(value).n
         IN  [fill |-> IF numValue <= threshold THEN "good" ELSE "bad",
              percentage |-> Percentage(numValue, maxValue),
              text |-> toFixedText(numValue)]

\* the render draws one bar
createStatBar_call(value, maxValue, threshold) ==
    /\ bars' = [drawn |-> TRUE, value |-> value, maxValue |-> maxValue,
                threshold |-> threshold,
                bar |-> createStatBar(value, maxValue, threshold)]
    /\ UNCHANGED <<ctrlVars, gwVars, overlayVars>>

\* metric values, in hundredths: utilisations below, at and above the
\* thresholds and maxima of the render, and the values that are no number
MetricValues ==
    {MetricNumber(n) : n \in {0, 1, 50, 99, 100, 101, 150, 200, 250,
                              8999, 9000, 9001, 10000, 12000}}
    \cup {MetricUndefined, MetricNull, MetricNaN, MetricDash}

\* maxValue: 1.0 and 100 in the render, 2.0 by default
MaxValues == {100, 200, 10000}

\* threshold: 1.0 (also the default) and 90 in the render
Thresholds == {100, 9000}

\* report entries of a snapshot
VideoReport(framesPerSecond, jitter, bytesReceived) ==
    [type |-> "inbound-rtp", framesPerSecond |-> framesPerSecond,
     jitter |-> jitter, bytesReceived |-> bytesReceived]

PairReport(state, currentRoundTripTime) ==
    [type |-> "candidate-pair", state |-> state,
     currentRoundTripTime |-> currentRoundTripTime]

\* values of the received-bytes counter
ByteValues == {1000000, 2000000}

\* snapshots getVideoRTCStats resolves with: 60 fps with 15 ms jitter;
\* 29.5 fps with 0.4 ms jitter, 4321 bytes further, and a 42 ms round
\* trip; an inbound report without frame rate; a round trip of 0; a pair
\* not yet succeeded
Snapshots ==
    {<<>>,
     <<PairReport("succeeded", <<0>>)>>,
     <<PairReport("in-progress", <<425>>)>>}
    \cup {<<VideoReport(<<600>>, <<150>>, b)>> : b \in ByteValues}
    \cup {<<VideoReport(<<295>>, <<4>>, b + 4321), PairReport("succeeded", <<420>>)>> :
             b \in ByteValues}
    \cup {<<VideoReport(NoNumber, <<150>>, b)>> : b \in ByteValues}

\* ------------------------------------------------------- specification
Init ==
    /\ mounted = FALSE
    /\ status = STOPPED
    /\ isStreamStarting = FALSE
    /\ inputEnabled = FALSE
    /\ lastSessionId = 0
    /\ gameliftstreams = 0
    /\ constructed = {}
    /\ closed = {}
    /\ answered = {}
    /\ attached = {}
    /\ opsOnClosed = {}
    /\ sgId = <<>>
    /\ appId = <<>>
    /\ sessionId = <<>>
    /\ regions = <<"us-west-2">>
    /\ nseq = 0
    /\ overlapped = FALSE
    /\ seqs = [s \in SeqIds |-> NoSeq]
    /\ env = Unset
    /\ gw = NoInvocation
    /\ ov = InitialOverlay
    /\ closure = Captured(InitialOverlay)
    /\ effects = {}
    /\ timers = {}
    /\ fetching = NoFetch
    /\ clock = 0
    /\ hist = NoHistory
    /\ bars = NoBars

Next ==
    \/ componentDidMount
    \/ \E s \in SeqIds : createStreamSession(s)
    \/ \E s \in SeqIds : createStreamSession_offer(s)
    \/ \E s \in SeqIds : createStreamSession_response(s)
    \/ \E s \in SeqIds : waitForACTIVE_response(s)
    \/ \E s \in SeqIds : waitForACTIVE_wake(s)
    \/ \E s \in SeqIds : startStream_settle(s)
    \/ \E s \in SeqIds : createStreamSessionConnection(s)
    \/ \E s \in SeqIds : createStreamSessionConnection_offer(s)
    \/ \E s \in SeqIds : createStreamSessionConnection_response(s)
    \/ closeConnection
    \/ enableFullScreen
    \/ Tick

Spec == Init /\ [][Next]_vars

\* Two invocations that may overlap, where time advances, every GetSession
\* call settles and every timer of a poll loop that is due fires
LiveSeqIds == {1, 2}

NextLive ==
    \/ componentDidMount
    \/ \E s \in LiveSeqIds : createStreamSession(s)
    \/ \E s \in LiveSeqIds : createStreamSession_offer(s)
    \/ \E s \in LiveSeqIds : createStreamSession_response(s)
    \/ \E s \in LiveSeqIds : waitForACTIVE_response(s)
    \/ \E s \in LiveSeqIds : waitForACTIVE_wake(s)
    \/ \E s \in LiveSeqIds : startStream_settle(s)
    \/ \E s \in LiveSeqIds : createStreamSessionConnection(s)
    \/ \E s \in LiveSeqIds : createStreamSessionConnection_offer(s)
    \/ \E s \in LiveSeqIds : createStreamSessionConnection_response(s)
    \/ closeConnection
    \/ enableFullScreen
    \/ Tick

SpecLive ==
    /\ Init
    /\ [][NextLive]_vars
    /\ WF_vars(Tick)
    /\ \A s \in LiveSeqIds : /\ WF_vars(waitForACTIVE_response(s))
                             /\ WF_vars(waitForACTIVE_wake(s))

\* One invocation, with the user editing the form fields around it
FormSeqIds == {1}

NextForm ==
    \/ componentDidMount
    \/ \E s \in FormSeqIds : createStreamSession(s)
    \/ \E s \in FormSeqIds : createStreamSession_offer(s)
    \/ \E s \in FormSeqIds : createStreamSession_response(s)
    \/ \E s \in FormSeqIds : waitForACTIVE_response(s)
    \/ \E s \in FormSeqIds : waitForACTIVE_wake(s)
    \/ \E s \in FormSeqIds : startStream_settle(s)
    \/ \E s \in FormSeqIds : createStreamSessionConnection(s)
    \/ \E s \in FormSeqIds : createStreamSessionConnection_offer(s)
    \/ \E s \in FormSeqIds : createStreamSessionConnection_response(s)
    \/ closeConnection
    \/ enableFullScreen
    \/ Tick
    \/ \E name \in FieldNames, value \in Typed : handleInputChange(name, value)
    \/ \E region \in RegionOptions : handleRegionChange(region)

SpecForm == Init /\ [][NextForm]_vars

\* The Gateway handlers, serving the mounted component's requests (built
\* from its fields as they are when it posts) and those of other clients
NextGateway ==
    \/ componentDidMount
    \/ \E name \in FieldNames, value \in Typed : handleInputChange(name, value)
    \/ \E region \in RegionOptions : handleRegionChange(region)
    \/ \E value \in EnvValues : Deploy(value)
    \/ \E event \in StartEvents : StartStream_handler(event)
    \/ StartStream_settle
    \/ \E event \in GetEvents : GetStreamSession_handler(event)
    \/ GetStreamSession_settle
    \/ \E event \in ReconnectEvents : Reconnect_handler(event)
    \/ Reconnect_settle
    \/ LambdaReturn

SpecGateway == Init /\ [][NextGateway]_vars

\* The overlay under a parent that mounts it, changes its props, toggles
\* it and removes it
NextStats ==
    \/ \E r \in BOOLEAN, h \in OverlayHandles : StatsOverlay_mount(r, h)
    \/ \E r \in BOOLEAN, h \in OverlayHandles : StatsOverlay_render(r, h)
    \/ StatsOverlay_effects
    \/ toggleStats
    \/ \E t \in timers : statsInterval_tick(t)
    \/ \E stats \in Snapshots : getVideoRTCStats_resolves(stats)
    \/ getVideoRTCStats_rejects
    \/ Advance
    \/ StatsOverlay_unmount

SpecStats == Init /\ [][NextStats]_vars

\* The render draws bars for metric values
NextBars ==
    \E value \in MetricValues, maxValue \in MaxValues,
       threshold \in Thresholds :
        createStatBar_call(value, maxValue, threshold)

SpecBars == Init /\ [][NextBars]_vars

TypeOK ==
    /\ mounted \in BOOLEAN
    /\ status \in StreamState
    /\ isStreamStarting \in BOOLEAN
    /\ inputEnabled \in BOOLEAN
    /\ lastSessionId \in 0..MaxSeq
    /\ gameliftstreams \in {0} \cup HandleIds
    /\ constructed \subseteq HandleIds
    /\ closed \subseteq constructed
    /\ nseq \in 0..MaxSeq
    /\ env \in EnvValues
    /\ gw.fn \in {"none", "start", "get", "reconnect"}
    /\ gw.pc \in {"idle", "awaiting", "returned", "threw"}
    /\ gw.cpCalls \in 0..1
    /\ gw.response.statusCode \in {0, 200, 500}

\* ================================================================ claims
Started(s) == seqs[s].kind # "none"
Failures == {"gwfail", "negfail", "timeout"}

\* a step in which sequence s reaches the terminal outcome out
Reaches(s, out) == seqs[s].outcome = "none" /\ seqs'[s].outcome = out

\* C1: a poll loop that gets n non-ACTIVE GetSession responses and then an
\* ACTIVE one has issued exactly n+1 GetSession calls when it hands the
\* answer to the Transport Engine; the answer is the signalResponse of that
\* (n+1)-th response, not the one of StartSession; when the application
\* completes, input is attached and status is set to RUNNING; and the loop
\* issues no GetSession call afterwards.
C1_Observed(s) ==
    /\ seqs[s].calls = seqs[s].nonActive + 1
    /\ seqs[s].sig = GetSig(s, seqs[s].nonActive + 1)
    /\ seqs[s].sig # StartSig(s)
    /\ seqs[s].applyHandle # 0

C1_PollUntilActive ==
    /\ [](\A s \in SeqIds :
            seqs[s].kind = "create" =>
              /\ seqs[s].pc = "apply" => C1_Observed(s)
              /\ seqs[s].outcome = "running" =>
                    /\ C1_Observed(s)
                    /\ seqs[s].applyHandle \in answered
                    /\ seqs[s].attachHandle \in attached)
    /\ [][\A s \in SeqIds :
            seqs[s].kind = "create" =>
              /\ Reaches(s, "running") =>
                    /\ status' = RUNNING
                    /\ seqs'[s].attachHandle = gameliftstreams
                    /\ gameliftstreams \in attached'
              /\ seqs[s].pc \in {"apply", "done"} =>
                    seqs'[s].calls = seqs[s].calls]_vars

\* C1 witness: ACTIVATING once, then ACTIVE: two calls, RUNNING
C1_Witness ==
    \E s \in SeqIds :
        /\ seqs[s].kind = "create"
        /\ seqs[s].outcome = "running"
        /\ seqs[s].nonActive = 1
        /\ seqs[s].calls = 2
        /\ seqs[s].sig = GetSig(s, 2)
        /\ status = RUNNING

\* C2: whenever a Gateway call fails inside a lifecycle sequence
\* (StartSession, GetSession or CreateConnection), the status becomes ERROR.
C2_GatewayFailureSetsError ==
    [][\A s \in SeqIds : Reaches(s, "gwfail") => status' = ERROR]_vars

\* C3: when a poll loop reaches its deadline without having seen ACTIVE it
\* sets status ERROR, and it issues no GetSession call afterwards.
C3_TimeoutSetsError ==
    [][\A s \in SeqIds :
          /\ Reaches(s, "timeout") => status' = ERROR
          /\ seqs[s].outcome = "timeout" => seqs'[s].calls = seqs[s].calls]_vars

\* C4: a Gateway-call failure aborts its sequence: after a failed
\* StartSession the invocation never issues a GetSession call, after a
\* failed GetSession the loop issues no further GetSession call, and in
\* neither case does the sequence apply an answer or attach input.
C4_GatewayFailureAborts ==
    /\ [](\A s \in SeqIds :
            seqs[s].err \in ErrKind =>
              /\ seqs[s].applyHandle = 0
              /\ seqs[s].attachHandle = 0
              /\ seqs[s].nonActive = seqs[s].calls - 1 \/ seqs[s].calls = 0)
    /\ [][\A s \in SeqIds :
            seqs[s].err \in ErrKind =>
              /\ seqs'[s].calls = seqs[s].calls
              /\ seqs'[s].applyHandle = seqs[s].applyHandle
              /\ seqs'[s].attachHandle = seqs[s].attachHandle]_vars

\* C4 witness: one sequence failed at StartSession (no GetSession call at
\* all) and another at its second GetSession call
C4_Witness ==
    \E s, t \in SeqIds :
        /\ seqs[s].kind = "create" /\ seqs[s].outcome = "gwfail"
        /\ seqs[s].calls = 0
        /\ seqs[t].kind = "create" /\ seqs[t].outcome = "gwfail"
        /\ seqs[t].calls = 2 /\ seqs[t].nonActive = 1

\* C5: a single (non-overlapped) create or reconnect sequence that has
\* reached any terminal outcome leaves isStarting false.
C5_IsStartingReset ==
    (/\ nseq >= 1
     /\ ~overlapped
     /\ \A s \in SeqIds : ~InFlight(s)) => ~isStreamStarting

\* C6: every terminal failure of a create or reconnect sequence produces a
\* user-visible notification and does not escape the sequence.
C6_FailureNotifiedAndContained ==
    \A s \in SeqIds :
        seqs[s].outcome \in Failures => seqs[s].alerted /\ ~seqs[s].escaped

\* C7: at most one create, reconnect or poll sequence is in flight.
C7_AtMostOneInFlight ==
    Cardinality({s \in SeqIds : InFlight(s)}) <= 1

\* C8: CloseSession does not cancel outstanding work: the close step leaves
\* every sequence where it was, and a poll loop that began before a close
\* and whose answer is applied after it still sets status RUNNING and
\* lastSessionArn to its ARN.
C8_CloseDoesNotCancel ==
    [][/\ closed' # closed => seqs' = seqs
       /\ \A s \in SeqIds :
            (/\ seqs[s].kind = "create"
             /\ seqs[s].offerHandle \in closed
             /\ Reaches(s, "running"))
            => status' = RUNNING /\ lastSessionId' = seqs[s].arn]_vars

\* C8 witness: status is RUNNING over a handle no sequence began on: it was
\* set by a poll loop that was in flight at the last close and saw ACTIVE
\* after it
C8_Witness ==
    /\ status = RUNNING
    /\ closed # {}
    /\ \A t \in SeqIds : Started(t) => seqs[t].offerHandle # gameliftstreams
    /\ \E s \in SeqIds :
        /\ seqs[s].kind = "create"
        /\ seqs[s].outcome = "running"
        /\ seqs[s].applyHandle = gameliftstreams
        /\ seqs[s].attachHandle = gameliftstreams
        /\ lastSessionId = seqs[s].arn

\* C9: from mount onwards exactly one Transport Engine handle is live; a
\* close closes the current handle and installs a newly constructed one in
\* the same step; a closed handle is never installed again.
Live == constructed \ closed

C9_ExactlyOneLiveHandle ==
    /\ [](mounted => Live = {gameliftstreams})
    /\ [][/\ closed' # closed =>
                /\ closed' = closed \cup {gameliftstreams}
                /\ gameliftstreams' \notin constructed
                /\ gameliftstreams' \in constructed'
          /\ gameliftstreams' # gameliftstreams =>
                gameliftstreams' \notin closed']_vars

\* C9 witness: two closes have happened
C9_Witness == mounted /\ Cardinality(closed) = 2 /\ Cardinality(constructed) = 3

\* C10: no Transport Engine operation is started on a handle after close()
\* was called on it; a sequence begun after a close generates its offer on
\* the replacement handle.
C10_NoUseAfterClose ==
    /\ [](opsOnClosed = {})
    /\ [][nseq' # nseq =>
            /\ seqs'[nseq'].offerHandle = gameliftstreams'
            /\ gameliftstreams' \in Live']_vars

\* C10 witness: after a close, a create sequence ran from offer to RUNNING
\* on the replacement handle
C10_Witness ==
    \E s \in SeqIds :
        /\ seqs[s].kind = "create"
        /\ seqs[s].outcome = "running"
        /\ closed # {}
        /\ seqs[s].offerHandle = gameliftstreams
        /\ seqs[s].applyHandle = gameliftstreams
        /\ seqs[s].attachHandle = gameliftstreams

C12_LastSessionOnlyByPoll ==
    [][lastSessionId' # lastSessionId =>
         \E s \in SeqIds :
            /\ seqs[s].kind = "create"
            /\ seqs[s].pc = "apply"
            /\ seqs[s].nonActive + 1 = seqs[s].calls
            /\ Reaches(s, "running")
            /\ seqs[s].applyHandle \in answered'
            /\ lastSessionId' = seqs[s].arn
            /\ seqs[s].arn = ArnOf(s)]_vars

\* C12 witness: a create sequence set lastSessionId; a reconnect that
\* reached RUNNING and a close left it as it was
C12_Witness ==
    \E s, t \in SeqIds :
        /\ seqs[s].kind = "create" /\ seqs[s].outcome = "running"
        /\ lastSessionId = seqs[s].arn
        /\ seqs[t].kind = "reconnect" /\ seqs[t].outcome = "running"
        /\ seqs[t].offerHandle \notin closed
        /\ seqs[s].offerHandle \in closed

\* C13: within one invocation the steps come in the order offer, Gateway
\* call, poll loop (create only), answer applied, input attached, RUNNING:
\* the Gateway call is not issued before the offer is there, and attachInput
\* of the invocation is not called before its applyAnswer has completed.
PcOrder ==
    {<<"idle", "offer">>, <<"offer", "post">>, <<"offer", "done">>,
     <<"post", "get">>, <<"post", "apply">>, <<"post", "done">>,
     <<"get", "sleep">>, <<"get", "apply">>, <<"get", "done">>,
     <<"sleep", "get">>, <<"sleep", "done">>, <<"apply", "done">>}

C13_StepOrder ==
    /\ [](\A s \in SeqIds :
            /\ seqs[s].payload # NoPayload => seqs[s].offerHandle # 0
            /\ seqs[s].pc \in {"post", "get", "sleep", "apply"} =>
                  seqs[s].payload # NoPayload
            /\ seqs[s].calls > 0 => seqs[s].kind = "create"
            /\ seqs[s].applyHandle # 0 =>
                  seqs[s].payload # NoPayload /\
                  (seqs[s].kind = "create" => seqs[s].calls > 0)
            /\ seqs[s].attachHandle # 0 =>
                  seqs[s].applyHandle \in answered /\ seqs[s].outcome = "running")
    /\ [][\A s \in SeqIds :
            /\ seqs'[s].pc # seqs[s].pc => <<seqs[s].pc, seqs'[s].pc>> \in PcOrder
            /\ (seqs[s].kind = "reconnect" /\ seqs[s].pc = "post")
                  => seqs'[s].pc \in {"post", "apply", "done"}
            /\ (seqs[s].kind = "create" /\ seqs[s].pc = "post")
                  => seqs'[s].pc \in {"post", "get", "done"}
            /\ Reaches(s, "running") => status' = RUNNING]_vars

\* C13 witness: a create and a reconnect both went through all their steps
C13_Witness ==
    \E s, t \in SeqIds :
        /\ seqs[s].kind = "create" /\ seqs[s].outcome = "running"
        /\ seqs[s].nonActive >= 1
        /\ seqs[t].kind = "reconnect" /\ seqs[t].outcome = "running"

\* C14: CreateSession and ReconnectSession set status to STARTING (LOADING)
\* on entry, so a sequence in flight that has not reached RUNNING or a
\* failure shows status STARTING.
C14_StartingOnEntry ==
    (~overlapped /\ \E s \in SeqIds : InFlight(s)) => status = LOADING

\* C16: a GetSession response with control-plane status ERROR or TERMINATED
\* is not treated like ACTIVATING: the loop does not sleep and poll again.
C16_FailedSessionNotPolledAgain ==
    [][\A s \in SeqIds :
          seqs[s].lastStatus \in {"ERROR", "TERMINATED"} =>
              seqs'[s].calls = seqs[s].calls]_vars

\* C15: CloseSession sets status STOPPED and inputEnabled false and leaves
\* lastSessionArn, streamGroupId, applicationId, pendingSessionArn and
\* regions unchanged.
C15_CloseFrame ==
    [][closed' # closed =>
          /\ status' = STOPPED
          /\ inputEnabled' = FALSE
          /\ lastSessionId' = lastSessionId
          /\ sgId' = sgId
          /\ appId' = appId
          /\ sessionId' = sessionId
          /\ regions' = regions]_vars

\* C15 witness: a session that ran in fullscreen was closed; its ARN and
\* the edited fields are still there
C15_Witness ==
    /\ closed # {}
    /\ status = STOPPED
    /\ ~inputEnabled
    /\ \E h \in closed : h \in attached /\ h \in answered
    /\ lastSessionId = ArnOf(1)
    /\ sgId # <<>>
    /\ appId # <<>>
    /\ sessionId # <<>>
    /\ regions # <<"us-west-2">>

\* ------------------------------------------------------- Gateway claims
\* positions of the separators of a string
Slashes(str) == {i \in 1..Len(str) : str[i] = "/"}

\* the text between the last two separators (from the start, if one only)
SecondToLast(str) ==
    LET last == SetMax(Slashes(str))
        before == {i \in Slashes(str) : i < last}
        prev == IF before = {} THEN 0 ELSE SetMax(before)
    IN  SubSeq(str, prev + 1, last - 1)

ReconnectCalled == gw.fn = "reconnect" /\ gw.cpCalls >= 1

SentArn == gw.event.body.obj.SessionIdentifier

\* C17 (amended): for every session ARN of at least two '/'-delimited
\* segments the reconnect handler passes the second-to-last segment as the
\* stream-group identifier and the full ARN as the session identifier; a
\* group identifier supplied in the body is not used.
C17_SecondToLastSegment ==
    (ReconnectCalled /\ Slashes(SentArn) # {}) =>
        /\ gw.cpRequest.Identifier = SecondToLast(SentArn)
        /\ gw.cpRequest.StreamSessionIdentifier = SentArn

\* C17 witness: streamsession/<sg>/<id> sent with another group id in the body
C17_Witness ==
    /\ ReconnectCalled
    /\ SentArn = Join(<<<<"s", "s">>, <<"s", "g">>, <<"s", "s">>>>)
    /\ gw.cpRequest.Identifier = <<"s", "g">>
    /\ Field(gw.event.body.obj, "SGIdentifier") = <<"o">>

\* C17 as stated: the second-to-last segment, and with it the example
\* .../streamgroup/<SG>/streamsession/<ID> gives <SG>
C17_AsStated ==
    /\ C17_SecondToLastSegment
    /\ ReconnectCalled =>
          \A p \in Segs, g \in Segs, i \in Segs :
              SentArn = Join(<<p, g, <<"s", "s">>, i>>) =>
                  gw.cpRequest.Identifier = g

Settled == gw.pc = "returned" /\ gw.cpCalls >= 1

\* C18: for start, get and reconnect, every failure of the control-plane
\* call gives 500 with body {message} carrying the error's message,
\* whatever its kind; success gives 200 with the documented fields.
C18_UniformFailureShape ==
    Settled =>
        IF gw.cpOutcome.ok
        THEN /\ gw.response.statusCode = 200
             /\ gw.response.body.signalResponse =
                    (IF gw.cpOutcome.SignalResponse = Undefined
                     THEN <<>> ELSE gw.cpOutcome.SignalResponse)
             /\ IF gw.fn = "reconnect"
                THEN DOMAIN gw.response.body = {"signalResponse"}
                ELSE /\ DOMAIN gw.response.body =
                            {"signalResponse", "arn", "region", "status"}
                     /\ gw.response.body.arn = gw.cpOutcome.Arn
                     /\ gw.response.body.region = gw.cpOutcome.Location
                     /\ gw.response.body.status = gw.cpOutcome.Status
        ELSE /\ gw.response.statusCode = 500
             /\ DOMAIN gw.response.body = {"message"}
             /\ gw.response.body.message = gw.cpOutcome.message

\* C18 witness: a throttled getStreamSession was answered
C18_Witness ==
    /\ Settled
    /\ gw.fn = "get"
    /\ ~gw.cpOutcome.ok
    /\ gw.cpOutcome.name = "ThrottlingException"
    /\ gw.response.statusCode = 500

\* C19: no retries: an invocation of the start, get or reconnect handler
\* issues at most one control-plane call, also when the call fails.
C19_AtMostOneCall == gw.cpCalls <= 1

\* C19 witness: a start invocation answered after its one call failed
C19_Witness ==
    /\ Settled
    /\ gw.fn = "start"
    /\ ~gw.cpOutcome.ok
    /\ gw.cpCalls = 1

StartCalled == gw.fn = "start" /\ gw.cpCalls >= 1

\* C20: the startStreamSession call carries the regions as the component
\* sent them (its current selection, same elements and order), protocol
\* WebRTC, shared performance stats, and the configured connection timeout
\* or 120 when none is configured.
C20_StartRequestFields ==
    /\ [](StartCalled =>
            /\ gw.cpRequest.Locations = Field(gw.event.body.obj, "Regions")
            /\ gw.cpRequest.Protocol = "WebRTC"
            /\ gw.cpRequest.PerformanceStatsConfiguration.SharedWithClient
            /\ gw.cpRequest.ConnectionTimeoutSeconds =
                  (IF env = <<"1", "0">> THEN 10 ELSE 120))
    /\ [][(gw.pc = "idle" /\ gw'.fn = "start" /\ gw'.cpCalls = 1
             /\ gw'.event.from = "component")
            => gw'.cpRequest.Locations = regions]_vars

\* C20 witness: the component's request with another region selected, on
\* a deployment that configures 10 seconds
C20_Witness ==
    /\ StartCalled
    /\ gw.event.from = "component"
    /\ gw.cpRequest.Locations = <<"eu-west-1">>
    /\ gw.cpRequest.ConnectionTimeoutSeconds = 10
    /\ env = <<"1", "0">>

\* ------------------------------------------------- interleaving claims
\* C27: under every interleaving of create, reconnect and close, each
\* answer is applied to the handle that generated the offer of the request
\* which produced it, never to a replacement handle.
C27_AnswerOnOfferHandle ==
    \A s \in SeqIds :
        seqs[s].applyHandle # 0 => seqs[s].applyHandle = seqs[s].offerHandle

\* C28: whenever status is RUNNING the live handle has had an answer
\* applied and input attached.
C28_RunningHandleNegotiated ==
    status = RUNNING =>
        gameliftstreams \in answered /\ gameliftstreams \in attached

\* C29: every GetSession call of a create sequence uses the stream-group
\* identifier sent in that sequence's StartSession request, also when the
\* field is edited while the request is in flight.
C29_PollUsesSentGroup ==
    \A s \in SeqIds :
        (seqs[s].kind = "create" /\ seqs[s].calls >= 1) =>
            seqs[s].sg = seqs[s].payload.SGIdentifier

\* C30: an ACTIVE GetSession response that arrives after
\* startTime + timeoutMs is not applied.
C30_NoStartAfterDeadline ==
    [][\A s \in SeqIds :
          (seqs[s].pc = "get" /\ seqs[s].elapsed >= TimeoutTicks) =>
              seqs'[s].pc # "apply"]_vars

\* the overlay is mounted, its effects have run and its render is up to
\* date with props and state
Quiescent == ov.phase = "mounted" /\ effects = {} /\ Committed

\* C21: once pending effects have run, the sampling timer is armed if and
\* only if the overlay is visible and the stream is running, whatever
\* toggles, start/stop changes and handle changes came before; and no tick
\* starts fetching a snapshot while the overlay is hidden.
C21_ArmedIffVisibleAndRunning ==
    /\ Quiescent => (timers # {} <=> (ov.isVisible /\ ov.isStreamRunning))
    /\ ~hist.hiddenFetch

\* C21 witness: after a toggle during a running stream the overlay has
\* settled visible with the timer armed and a tick has fetched a snapshot
C21_Witness ==
    /\ Quiescent
    /\ hist.toggled
    /\ ov.isVisible /\ ov.isStreamRunning
    /\ timers # {}
    /\ fetching.active

\* C22: at most one sampling timer is armed at any time, and after unmount
\* none is.
C22_AtMostOneTimer ==
    /\ Cardinality(timers) <= 1
    /\ ov.phase = "gone" => timers = {}

\* C22 witness: the timer has been re-armed (the second interval id is the
\* one armed) and it is the only one
C22_Witness ==
    /\ Cardinality(timers) = 1
    /\ \E t \in timers : t.id = 2 /\ ov.statsIntervalRef = 2

\* C26: once the effects of a stream start have run, and until the next
\* toggleStats call, the overlay is visible and the sampling timer armed,
\* whether or not it was hidden before the stream started.
C26_ShownOnStreamStart ==
    (Quiescent /\ ov.isStreamRunning /\ ~hist.toggled)
        => (ov.isVisible /\ timers # {})

\* C26 witness: the overlay was hidden when the stream started and is now
\* visible with the timer armed
C26_Witness ==
    /\ Quiescent
    /\ ov.isStreamRunning
    /\ ~hist.toggled
    /\ hist.hiddenAtStart
    /\ ov.isVisible
    /\ timers # {}

\* h hundredths is n / d to two decimals (d > 0)
NearestHundredth(h, n, d) ==
    LET off == 100 * n - h * d
    IN  (IF off >= 0 THEN off ELSE 0 - off) * 2 <= d

NearestInteger(r, n, d) ==
    LET off == n - r * d
    IN  (IF off >= 0 THEN off ELSE 0 - off) * 2 <= d

\* text is the decimal text of n / d rounded to the nearest integer
ShowsRounded(text, n, d) ==
    \E r \in 0..(n \div d + 1) : NearestInteger(r, n, d) /\ text = ToString(r)

\* C24: after a snapshot is processed, the displayed jitter is the jitter of
\* its video report, and the displayed round-trip time that of its succeeded
\* candidate pair, in seconds times 1000 rounded to the nearest integer; the
\* frame rate is the reported one rounded to the nearest integer.  (Seconds
\* come in units of 0.0001 s and frames per second in tenths: both are
\* divided by 10.)
C24_DisplayedRounded ==
    [][\A stats \in Snapshots :
          (getVideoRTCStats_resolves(stats) /\ ov.phase = "mounted")
          => \A i \in 1..Len(stats) :
                LET report == stats[i]
                IN  /\ (report.type = "inbound-rtp"
                          /\ report.framesPerSecond # NoNumber)
                       => /\ ShowsRounded(Displayed(ov'.networkStats.jitter),
                                          report.jitter[1], 10)
                          /\ ov'.frameRate # NoNumber
                          /\ NearestInteger(ov'.frameRate[1],
                                            report.framesPerSecond[1], 10)
                    /\ (report.type = "candidate-pair"
                          /\ report.state = "succeeded")
                       => ShowsRounded(Displayed(ov'.networkStats.rtt),
                                       report.currentRoundTripTime[1], 10)]_vars

RECURSIVE GCD(_, _)
GCD(a, b) == IF b = 0 THEN a ELSE GCD(b, a % b)

\* the fraction a / b (a >= 0, b > 0) in lowest terms
Lowest(a, b) == <<a \div GCD(a, b), b \div GCD(a, b)>>

C31_StartingWhileInFlight ==
    (\E s \in SeqIds : InFlight(s)) => isStreamStarting

\* C32: inputEnabled implies status RUNNING.
C32_InputOnlyWhileRunning == inputEnabled => status = RUNNING

\* C32 witness: fullscreen was entered during a session that followed a
\* closed one
C32_Witness == inputEnabled /\ status = RUNNING /\ closed # {}

\* C33: a poll loop eventually stops polling, and it stops by observing
\* ACTIVE (the answer is being applied), by a failed call or by its
\* deadline, whatever else is interleaved with it.
C33_PollLoopTerminates ==
    /\ \A s \in SeqIds : Polling(s) ~> ~Polling(s)
    /\ [][\A s \in SeqIds :
             (Polling(s) /\ ~(seqs'[s].pc \in {"get", "sleep"}))
             => \/ seqs'[s].pc = "apply"
                \/ seqs'[s].outcome \in {"gwfail", "timeout"}]_vars

\* C33 witness: a loop has ended by its deadline after another sequence
\* started and a close happened
C33_Witness ==
    \E s \in SeqIds :
        /\ seqs[s].outcome = "timeout"
        /\ overlapped
        /\ closed # {}

\* C34: whatever the request, a handler ends by returning a response with
\* status 200 or 500, never by throwing.
C34_AlwaysResponds ==
    /\ gw.pc # "threw"
    /\ gw.pc = "returned" => gw.response.statusCode \in {200, 500}

\* C35: with a received-byte counter that does not decrease within a
\* session, every reported bitrate is non-negative, also after hiding and
\* showing the overlay and after one session ends and another starts.
C35_BitrateNonNegative ==
    ov.networkStats.bitrate # NoNumber => ov.networkStats.bitrate[1] >= 0

\* the snapshot holds a succeeded candidate-pair report
HasSucceededPair(stats) ==
    \E i \in 1..Len(stats) :
        stats[i].type = "candidate-pair" /\ stats[i].state = "succeeded"

\* C36: a snapshot without a succeeded candidate-pair report leaves the
\* displayed round-trip time as it was, and one without a video report
\* leaves the displayed frame rate, jitter and bitrate as they were.
C36_OnlyContainedMetricsChange ==
    [][\A stats \in Snapshots :
          getVideoRTCStats_resolves(stats)
          => /\ ~HasSucceededPair(stats)
                => Displayed(ov'.networkStats.rtt) = Displayed(ov.networkStats.rtt)
             /\ VideoSamples(stats) = <<>>
                => /\ Displayed(ov'.frameRate) = Displayed(ov.frameRate)
                   /\ Displayed(ov'.networkStats.jitter)
                        = Displayed(ov.networkStats.jitter)
                   /\ ov'.networkStats.bitrate = ov.networkStats.bitrate]_vars

====
